---- MODULE Spec2Model ----
(***************************************************************************)
(* A model of transcribr.Transcribr (src/transcribr/transcribr.py).        *)
(*                                                                         *)
(* Text is a sequence of one-character strings.  An optional value         *)
(* (Python's None or a value) is a sequence of length 0 or 1.              *)
(* Times are whole microseconds, the resolution datetime.timedelta keeps.  *)
(***************************************************************************)
EXTENDS Integers, Sequences, FiniteSets, TLC

VARIABLES
    transcription,  \* self.transcription: <<>> (None) or <<t>>
    file_path,      \* self.file_path: <<>> (None) or <<path>>
    files,          \* regular files of the file system (relative paths)
    dirs,           \* directories of the file system, besides the working directory
    succeeded,      \* history: <<>> or <<[path, result]>> of the latest transcribe that returned
    last,           \* history: the latest call, its arguments, what it observed and its outcome
    input,          \* argument of a call of one of the pure functions
    output          \* <<>> before that call, <<its result>> after it

vars == <<transcription, file_path, files, dirs, succeeded, last, input, output>>

None == <<>>

Some(x) == <<x>>

\* F applied to the value of x: the value is computed once and named in F.
Let(x, F(_)) == F(x)

(***************************************************************************)
(* Bounds of the model.                                                    *)
(***************************************************************************)
\* Longest stream list the prober reports.
MaxStreams == 2

\* Longest full text given to the text renderer on its own.
MaxTextLen == 4

\* Longest segment list given to generate_srt on its own.
MaxSegments == 2

(***************************************************************************)
(* Text helpers.                                                           *)
(***************************************************************************)
RECURSIVE Pow2(_)
Pow2(n) == IF n <= 0 THEN 1 ELSE 2 * Pow2(n - 1)

\* Python's s.rfind(c), counted from 1: 0 when c does not occur.
RFind(s, c) ==
    IF \A i \in 1..Len(s) : s[i] # c THEN 0
    ELSE CHOOSE i \in 1..Len(s) : s[i] = c /\ \A j \in (i + 1)..Len(s) : s[j] # c

\* Python's s.rstrip(c) for a single character c.
RStrip(s, c) ==
    IF \A i \in 1..Len(s) : s[i] = c THEN <<>>
    ELSE SubSeq(s, 1, CHOOSE i \in 1..Len(s) :
                        s[i] # c /\ \A j \in (i + 1)..Len(s) : s[j] = c)

Whitespace == {" ", "\n", "\t"}

\* Python's s.strip(): leading and trailing whitespace removed.
Strip(s) ==
    IF \A i \in 1..Len(s) : s[i] \in Whitespace THEN <<>>
    ELSE SubSeq(s,
                CHOOSE i \in 1..Len(s) :
                    s[i] \notin Whitespace /\ \A j \in 1..(i - 1) : s[j] \in Whitespace,
                CHOOSE i \in 1..Len(s) :
                    s[i] \notin Whitespace /\ \A j \in (i + 1)..Len(s) : s[j] \in Whitespace)

Digits == <<"0", "1", "2", "3", "4", "5", "6", "7", "8", "9">>

\* str(n) for n >= 0.
RECURSIVE IntToStr(_)
IntToStr(n) ==
    IF n < 10 THEN <<Digits[n + 1]>>
    ELSE IntToStr(n \div 10) \o <<Digits[(n % 10) + 1]>>

\* The format specification {n:0w}: zero-padded to at least w characters.
RECURSIVE ZeroPad(_, _)
ZeroPad(s, w) == IF Len(s) >= w THEN s ELSE ZeroPad(<<"0">> \o s, w)

(***************************************************************************)
(* Paths and the file system (os.path, os.makedirs, open).                 *)
(***************************************************************************)
\* os.path.split, given the place i of the last separator: <<head, tail>>.
split_at(p, i) ==
    IF \E j \in 1..i : p[j] # "/"
    THEN <<RStrip(SubSeq(p, 1, i), "/"), SubSeq(p, i + 1, Len(p))>>
    ELSE <<SubSeq(p, 1, i), SubSeq(p, i + 1, Len(p))>>

\* os.path.split: <<head, tail>>.
split(p) == split_at(p, RFind(p, "/"))

\* os.path.splitext, given the places of the last separator and the last dot.
splitext_at(p, sepIndex, dotIndex) ==
    IF dotIndex > sepIndex /\ \E i \in (sepIndex + 1)..(dotIndex - 1) : p[i] # "."
    THEN <<SubSeq(p, 1, dotIndex - 1), SubSeq(p, dotIndex, Len(p))>>
    ELSE <<p, <<>>>>

\* os.path.splitext: <<root, extension>>; leading dots of the name are no extension.
splitext(p) == splitext_at(p, RFind(p, "/"), RFind(p, "."))

\* A relative path without its trailing separators, as the kernel resolves it.
Resolve(p) == RStrip(p, "/")

isdir(p, ds) == Resolve(p) = <<>> \/ Resolve(p) \in ds

exists(p, fs, ds) == p # <<>> /\ (Resolve(p) \in fs \/ isdir(p, ds))

\* The error of creating or writing an entry below parent ("" for none).
parent_error(parent, fs, ds) ==
    IF Resolve(parent) \in fs THEN "NotADirectoryError"
    ELSE IF ~isdir(parent, ds) THEN "FileNotFoundError"
    ELSE ""

\* os.mkdir(name): the error it raises ("" for none).
mkdir_error(name, fs, ds) ==
    IF name = <<>> THEN "FileNotFoundError"
    ELSE IF exists(name, fs, ds) THEN "FileExistsError"
    ELSE parent_error(split(Resolve(name))[1], fs, ds)

\* The head and tail os.makedirs works with: of name, or of its head when name
\* ends in a separator.
makedirs_split(ht) == IF ht[2] = <<>> THEN split(ht[1]) ELSE ht

\* os.makedirs(name, exist_ok=True): [raised, dirs].
RECURSIVE makedirs(_, _, _)
makedirs(name, fs, ds) ==
    Let(makedirs_split(split(name)), LAMBDA ht :
    Let(ht[1] # <<>> /\ ht[2] # <<>> /\ ~exists(ht[1], fs, ds), LAMBDA missing :
    Let(IF missing THEN makedirs(ht[1], fs, ds) ELSE [raised |-> "", dirs |-> ds],
        LAMBDA up :
    Let(mkdir_error(name, fs, up.dirs), LAMBDA err :
        IF up.raised \notin {"", "FileExistsError"} THEN up
        ELSE IF missing /\ ht[2] = <<".">> THEN [raised |-> "", dirs |-> up.dirs]
        ELSE IF err = "" THEN [raised |-> "", dirs |-> up.dirs \cup {Resolve(name)}]
        ELSE IF isdir(name, up.dirs) THEN [raised |-> "", dirs |-> up.dirs]
        ELSE [raised |-> err, dirs |-> up.dirs]))))

\* open(path, "w"): [raised, files].
open_w(path, fs, ds) ==
    Let(IF path = <<>> THEN "FileNotFoundError"
        ELSE IF isdir(path, ds) \/ path[Len(path)] = "/" THEN "IsADirectoryError"
        ELSE parent_error(split(Resolve(path))[1], fs, ds),
        LAMBDA err :
            [raised |-> err, files |-> IF err = "" THEN fs \cup {Resolve(path)} ELSE fs])

\* The directory output_file asks os.makedirs for: that of the requested output,
\* or the input path without its extension.
output_dir(path, dir) == IF dir = <<>> THEN splitext(path)[1] ELSE dir

\* Transcribr.output_file: [raised, value, dirs].
output_file(path, requested, extension, fs, ds) ==
    IF requested = None
    THEN [raised |-> "", value |-> splitext(path)[1] \o extension, dirs |-> ds]
    ELSE Let(makedirs(output_dir(path, split(requested[1])[1]), fs, ds), LAMBDA made :
             [raised |-> made.raised,
              value  |-> IF made.raised = "" THEN requested[1] ELSE <<>>,
              dirs   |-> made.dirs])

(***************************************************************************)
(* format_timedelta.  A time is [s, us]: whole seconds and microseconds,   *)
(* the value timedelta(seconds=...) holds.  td.total_seconds() is the      *)
(* double nearest to s + us/10^6, and                                      *)
(*     int((td.total_seconds() - total_seconds) * 1000)                    *)
(* is computed in doubles (IEEE 754, 53-bit significands, round to nearest *)
(* even).  With k the binary exponent of total_seconds() and m = 46 - k,   *)
(* the fraction kept by the double is G / 2^(m+6), where G is us*2^m/15625 *)
(* rounded to nearest; so the product with 1000 is                         *)
(*     us/1000 + e/(1000 * 2^m),  e = -rho or 15625 - rho,                 *)
(*     rho = (us * 2^m) mod 15625.                                         *)
(* It falls below the whole millisecond us/1000 exactly when rho is in     *)
(* 1..7812 and the shortfall exceeds half a unit in the last place of the  *)
(* product, which then truncates to one millisecond less.                  *)
(***************************************************************************)
RECURSIVE FloorLog2(_)
FloorLog2(n) == IF n < 2 THEN 0 ELSE 1 + FloorLog2(n \div 2)

\* 2^m mod 5^6.
RECURSIVE Pow2Mod(_)
Pow2Mod(m) == IF m = 0 THEN 1 ELSE (2 * Pow2Mod(m - 1)) % 15625

\* n >= 0 least with us * 2^n >= 10^6 (us > 0): the double us/10^6 has exponent -n.
RECURSIVE FractionShift(_, _)
FractionShift(us, n) == IF us * Pow2(n) >= 1000000 THEN n ELSE FractionShift(us, n + 1)

\* The binary exponent of the double total_seconds().
BinaryExponent(t) == IF t.s >= 1 THEN FloorLog2(t.s) ELSE 0 - FractionShift(t.us, 0)

\* The binary exponent of the doubles just below the whole number j >= 1.
ExponentBelow(j) == IF Pow2(FloorLog2(j)) = j THEN FloorLog2(j) - 1 ELSE FloorLog2(j)

\* Whether the double product rounds back up to the whole millisecond j.
RoundsUpTo(j, rho, k) ==
    Let(ExponentBelow(j) - k - 4, LAMBDA d :
        IF d >= 0 THEN rho <= 125 * Pow2(d)
        ELSE IF 0 - d >= 7 THEN FALSE
        ELSE rho * Pow2(0 - d) <= 125)

\* The outcome of the product for a whole millisecond j, given rho and k.
product_milliseconds(j, rho, k) ==
    IF rho = 0 \/ rho > 7812 THEN j
    ELSE IF RoundsUpTo(j, rho, k) THEN j
    ELSE j - 1

\* (us * 2^(46-k)) mod 5^6.
Remainder(us, k) == ((us % 15625) * Pow2Mod(46 - k)) % 15625

\* int((td.total_seconds() - total_seconds) * 1000) in double arithmetic.
milliseconds(t) ==
    IF t.us % 1000 # 0 \/ t.us = 0 THEN t.us \div 1000
    ELSE Let(BinaryExponent(t), LAMBDA k :
             product_milliseconds(t.us \div 1000, Remainder(t.us, k), k))

\* Transcribr.format_timedelta.
format_timedelta(t) ==
    ZeroPad(IntToStr(t.s \div 3600), 2) \o <<":">>
    \o ZeroPad(IntToStr((t.s % 3600) \div 60), 2) \o <<":">>
    \o ZeroPad(IntToStr(t.s % 60), 2) \o <<",">>
    \o ZeroPad(IntToStr(milliseconds(t)), 3)

(***************************************************************************)
(* generate_srt and the text of save_transcription.                        *)
(***************************************************************************)
\* A faulty variant of cue_number: enumerate's index is written as it is.
cue_number_from_zero(i) == i

\* The cue number written for the segment at enumerate's index i.
cue_number(i) == i + 1

\* The text written for a segment.
cue_text(segment) == Strip(segment.text)

\* One pass of the loop body of generate_srt, for enumerate's index i.
srt_block(i, segment) ==
    IntToStr(cue_number(i)) \o <<"\n">>
    \o format_timedelta(segment.start) \o <<" ", "-", "-", ">", " ">>
    \o format_timedelta(segment.end) \o <<"\n">>
    \o cue_text(segment) \o <<"\n", "\n">>

RECURSIVE srt_loop(_, _, _)
srt_loop(segments, i, srt_content) ==
    IF i >= Len(segments) THEN srt_content
    ELSE srt_loop(segments, i + 1, srt_content \o srt_block(i, segments[i + 1]))

\* Transcribr.generate_srt.
generate_srt(t) == srt_loop(t.segments, 0, <<>>)

\* Python's str.replace(old, new): left to right, occurrences not overlapping.
RECURSIVE Replace(_, _, _)
Replace(s, old, new) ==
    IF Len(s) < Len(old) THEN s
    ELSE IF SubSeq(s, 1, Len(old)) = old
         THEN new \o Replace(SubSeq(s, Len(old) + 1, Len(s)), old, new)
    ELSE <<Head(s)>> \o Replace(Tail(s), old, new)

\* A faulty variant of break_lines: the question mark is forgotten.
break_lines_without_question(text) ==
    Replace(Replace(text, <<".", " ">>, <<".", "\n">>), <<"!", " ">>, <<"!", "\n">>)

\* The text save_transcription writes.
break_lines(text) ==
    Replace(Replace(Replace(text, <<".", " ">>, <<".", "\n">>),
                    <<"?", " ">>, <<"?", "\n">>),
            <<"!", " ">>, <<"!", "\n">>)

(***************************************************************************)
(* The external collaborators: what they may answer.                       *)
(***************************************************************************)
CodecTypes == {"video", "audio", "subtitle"}

\* ffmpeg.probe(...)["streams"], or its failure (ffmpeg.Error).
ProbeOutcomes ==
    {[failed |-> TRUE, streams |-> <<>>]}
    \cup {[failed |-> FALSE, streams |-> s] :
            s \in UNION {[1..n -> CodecTypes] : n \in 0..MaxStreams}}

\* What a call sees of a probe: its failure, no stream, or the first stream's type.
Observed(probe) ==
    IF probe.failed THEN "error"
    ELSE IF Len(probe.streams) = 0 THEN "none"
    ELSE probe.streams[1]

Time(s, us) == [s |-> s, us |-> us]

\* Transcriptions the recognizer may return.
Transcriptions ==
    { [text     |-> <<" ", "H", "i", ".", " ", "Y", "o", "!", " ", "O", "k", "?">>,
       segments |-> << [start |-> Time(0, 0), end |-> Time(1, 1000),
                        text |-> <<" ", "H", "i", ".">>],
                       [start |-> Time(1, 1000), end |-> Time(3725, 250000),
                        text |-> <<" ", "Y", "o", "!", " ">>] >>],
      [text     |-> <<"N", "o">>,
       segments |-> << [start |-> Time(0, 500000), end |-> Time(2, 0),
                        text |-> <<"N", "o">>] >>] }

\* model.transcribe(audio_path): a transcription, or None for its failure.
RecognizerOutcomes == {None} \cup {Some(t) : t \in Transcriptions}

\* The default audio_path of extract_audio_from_video.
temp_audio == <<"t", "e", "m", "p", "_", "a", "u", "d", "i", "o", ".", "w", "a", "v">>

(***************************************************************************)
(* The file classifier and the audio extractor.                            *)
(***************************************************************************)
\* Transcribr.is_video_file: [raised, value]; value is "True", "False" or "None".
is_video_file(probe) ==
    IF probe.failed THEN [raised |-> "ffmpeg.Error", value |-> ""]
    ELSE IF Len(probe.streams) = 0 THEN [raised |-> "", value |-> "False"]
    ELSE IF probe.streams[1] = "video" THEN [raised |-> "", value |-> "True"]
    ELSE [raised |-> "", value |-> "None"]

\* Transcribr.is_audio_file: [raised, value].
is_audio_file(probe) ==
    IF probe.failed THEN [raised |-> "ffmpeg.Error", value |-> ""]
    ELSE IF Len(probe.streams) = 0 THEN [raised |-> "IndexError", value |-> ""]
    ELSE IF probe.streams[1] = "audio" THEN [raised |-> "", value |-> "True"]
    ELSE [raised |-> "", value |-> "False"]

\* Transcribr.extract_audio_from_video: [raised, value, files].
extract_audio_from_video(decoded, fs) ==
    IF decoded
    THEN [raised |-> "", value |-> temp_audio, files |-> fs \cup {temp_audio}]
    ELSE [raised |-> "ffmpeg.Error", value |-> <<>>, files |-> fs]

\* What extract_audio_from_file adds to the outcome r of its last step:
\* the collaborators it asked, in order, and what the probes showed.
asked(r, calls, video, audio) ==
    [raised |-> r.raised, value |-> r.value, files |-> r.files,
     calls |-> calls, video |-> video, audio |-> audio]

\* The elif and else branches of extract_audio_from_file, given is_audio_file's outcome.
extract_audio_from_audio(path, a, fs) ==
    IF a.raised # "" THEN [raised |-> a.raised, value |-> <<>>, files |-> fs]
    ELSE IF a.value = "True" THEN [raised |-> "", value |-> path, files |-> fs]
    ELSE [raised |-> "ValueError: Unsupported file type", value |-> <<>>, files |-> fs]

\* Transcribr.extract_audio_from_file: [raised, value, files, calls, video, audio].
extract_audio_from_file(path, pv, pa, decoded, fs) ==
    Let(is_video_file(pv), LAMBDA v :
        IF v.raised # ""
        THEN asked([raised |-> v.raised, value |-> <<>>, files |-> fs],
                   <<"probe video">>, Observed(pv), "")
        ELSE IF v.value = "True"
        THEN asked(extract_audio_from_video(decoded, fs),
                   <<"probe video", "decode">>, Observed(pv), "")
        ELSE asked(extract_audio_from_audio(path, is_audio_file(pa), fs),
                   <<"probe video", "probe audio">>, Observed(pv), Observed(pa)))

(***************************************************************************)
(* transcribe.                                                             *)
(***************************************************************************)
\* A faulty variant of input_found: the assertion is compiled away.
input_found_unchecked(path, fs, ds) == TRUE

\* The assertion of transcribe: os.path.exists(file_path).
input_found(path, fs, ds) == exists(path, fs, ds)

\* self.model.transcribe(audio_path), given the outcome x of the extraction.
recognize(x, recognized) ==
    IF x.raised # ""
    THEN [raised |-> x.raised, result |-> None, audio_path |-> None, files |-> x.files,
          calls |-> x.calls, video |-> x.video, audio |-> x.audio]
    ELSE [raised |-> IF recognized = None THEN "RecognizerError" ELSE "",
          result |-> recognized, audio_path |-> Some(x.value), files |-> x.files,
          calls |-> Append(x.calls, "recognize"), video |-> x.video, audio |-> x.audio]

\* Everything transcribe does up to its two assignments:
\* [raised, result, audio_path, files, calls, video, audio].
transcribe_steps(path, pv, pa, decoded, recognized, fs, ds) ==
    IF ~input_found(path, fs, ds)
    THEN [raised |-> "AssertionError: File not found", result |-> None,
          audio_path |-> None, files |-> fs, calls |-> <<>>, video |-> "", audio |-> ""]
    ELSE recognize(extract_audio_from_file(path, pv, pa, decoded, fs), recognized)

\* self.transcription after transcribe: assigned the recognizer's result once it returns.
transcription_after(old, steps) == IF steps.raised = "" THEN steps.result ELSE old

\* A faulty variant of file_path_after: the assignment is made before the
\* recognizer is called.
file_path_before_recognizer(old, path, steps) ==
    IF \E i \in 1..Len(steps.calls) : steps.calls[i] = "recognize"
    THEN Some(path)
    ELSE old

\* A faulty variant of file_path_after: the audio path is stored.
file_path_after_audio(old, path, steps) ==
    IF steps.raised = "" THEN steps.audio_path ELSE old

\* self.file_path after transcribe: assigned last, the path the caller passed.
file_path_after(old, path, steps) == IF steps.raised = "" THEN Some(path) ELSE old

(***************************************************************************)
(* The renderers.                                                          *)
(***************************************************************************)
NoTranscriptionAvailable == "ValueError: No transcription available"

\* Transcribr.save_srt_file, and the write of save_transcription: [raised, files].
save_srt_file(filename, fs, ds) == open_w(filename, fs, ds)

\* The write of a renderer to the resolved path o: [raised, ret, content, files, dirs].
write_resolved(o, w, content, fs) ==
    IF o.raised # ""
    THEN [raised |-> o.raised, ret |-> None, content |-> None,
          files |-> fs, dirs |-> o.dirs]
    ELSE IF w.raised # ""
    THEN [raised |-> w.raised, ret |-> Some(o.value), content |-> None,
          files |-> fs, dirs |-> o.dirs]
    ELSE [raised |-> "", ret |-> Some(o.value), content |-> Some(content),
          files |-> w.files, dirs |-> o.dirs]

\* What a renderer does once the transcription is known to be present:
\* [raised, ret, content, files, dirs].
write_output(path, requested, extension, content, fs, ds) ==
    Let(output_file(path, requested, extension, fs, ds), LAMBDA o :
        write_resolved(o, save_srt_file(o.value, fs, o.dirs), content, fs))

\* A faulty variant of save_transcription: the check of self.transcription is
\* missing, and None is subscripted.
save_transcription_unguarded(t, fp, requested, fs, ds) ==
    IF t = None
    THEN [raised |-> "TypeError", ret |-> None, content |-> None,
          files |-> fs, dirs |-> ds]
    ELSE write_output(fp[1], requested, <<".", "t", "x", "t">>,
                      break_lines(t[1].text), fs, ds)

\* Transcribr.save_transcription: [raised, ret, content, files, dirs].
save_transcription_steps(t, fp, requested, fs, ds) ==
    IF t = None
    THEN [raised |-> NoTranscriptionAvailable, ret |-> None, content |-> None,
          files |-> fs, dirs |-> ds]
    ELSE write_output(fp[1], requested, <<".", "t", "x", "t">>,
                      break_lines(t[1].text), fs, ds)

\* Transcribr.save_subtitles: [raised, ret, content, files, dirs].
save_subtitles_steps(t, fp, requested, fs, ds) ==
    IF t = None
    THEN [raised |-> NoTranscriptionAvailable, ret |-> None, content |-> None,
          files |-> fs, dirs |-> ds]
    ELSE write_output(fp[1], requested, <<".", "s", "r", "t">>,
                      generate_srt(t[1]), fs, ds)

(***************************************************************************)
(* The session: one Transcribr object, its callers and the file system.    *)
(***************************************************************************)
\* Paths the callers pass: a video in a directory, a file without extension,
\* and a path that does not exist.
InputPaths == { <<"d", "/", "a", ".", "m">>, <<"b">>, <<"n", ".", "m">> }

\* Output paths the callers request of output_file: none, a bare file name, a
\* file in a new directory, and a file below a regular file.
RequestedOutputs ==
    { None, Some(<<"o", ".", "t">>), Some(<<"x", "/", "o", ".", "t">>),
      Some(<<"b", "/", "o", ".", "t">>) }

\* Output paths the callers request of the renderers.
RenderOutputs == { None, Some(<<"o", ".", "t">>) }

\* The prober's answers to transcribe, which reads no stream but the first.
FirstStreamProbes ==
    {p \in ProbeOutcomes :
        Len(p.streams) <= 1 /\ \A i \in 1..Len(p.streams) : p.streams[i] # "subtitle"}

NotAsked == [failed |-> TRUE, streams |-> <<>>]

\* Whether the answers a hold every answer transcribe does not ask for at one
\* value, given is_video_file's outcome v and is_audio_file's outcome u.
Canonical(a, v, u) ==
    /\ (v.raised = "" /\ v.value # "True") \/ a.pa = NotAsked
    /\ (v.raised = "" /\ v.value = "True") \/ a.decoded
    /\ \/ v.raised = "" /\ v.value = "True" /\ a.decoded
       \/ v.raised = "" /\ v.value # "True" /\ u.raised = "" /\ u.value = "True"
       \/ a.recognized = None

\* The collaborators' answers to one transcribe: [pv, pa, decoded, recognized].
Answers ==
    {a \in [pv : FirstStreamProbes, pa : FirstStreamProbes,
            decoded : BOOLEAN, recognized : RecognizerOutcomes] :
        Canonical(a, is_video_file(a.pv), is_audio_file(a.pa))}

NoAnswers == [pv |-> NotAsked, pa |-> NotAsked, decoded |-> TRUE, recognized |-> None]

Extensions == { <<".", "t", "x", "t">>, <<".", "s", "r", "t">> }

\* What the session's fields and the file system hold.
Snapshot ==
    [transcription |-> transcription, file_path |-> file_path,
     files |-> files, dirs |-> dirs]

\* The record of a call of op made in the current state, before its details.
Call(op) ==
    [op |-> op, path |-> None, requested |-> None, extension |-> <<>>,
     raised |-> "", value |-> "", ret |-> None, content |-> None,
     calls |-> <<>>, video |-> "", audio |-> "", audio_path |-> None,
     again |-> None, before |-> Snapshot]

\* Transcribr.__init__, beside a file system holding the two input files.
NewSession ==
    /\ transcription = None
    /\ file_path = None
    /\ files = { <<"d", "/", "a", ".", "m">>, <<"b">> }
    /\ dirs = { <<"d">> }
    /\ succeeded = None
    /\ last = Call("__init__")

Init == NewSession /\ input = None /\ output = None

\* Transcribr.transcribe(path), with the answers of the prober (video and audio
\* filter), the decoder and the recognizer.
transcribe(path, pv, pa, decoded, recognized) ==
    \E steps \in {transcribe_steps(path, pv, pa, decoded, recognized, files, dirs)} :
        /\ transcription' = transcription_after(transcription, steps)
        /\ file_path' = file_path_after(file_path, path, steps)
        /\ files' = steps.files
        /\ succeeded' = IF steps.raised = ""
                        THEN Some([path |-> path, result |-> recognized[1]])
                        ELSE succeeded
        /\ last' = [Call("transcribe") EXCEPT
                        !.path = Some(path), !.raised = steps.raised,
                        !.calls = steps.calls, !.video = steps.video,
                        !.audio = steps.audio, !.audio_path = steps.audio_path]
        /\ UNCHANGED <<dirs, input, output>>

\* Transcribr.save_transcription(requested).
save_transcription(requested) ==
    \E steps \in {save_transcription_steps(transcription, file_path, requested,
                                           files, dirs)} :
        /\ files' = steps.files
        /\ dirs' = steps.dirs
        /\ last' = [Call("save_transcription") EXCEPT
                        !.requested = requested, !.raised = steps.raised,
                        !.ret = steps.ret, !.content = steps.content]
        /\ UNCHANGED <<transcription, file_path, succeeded, input, output>>

\* Transcribr.save_subtitles(requested).
save_subtitles(requested) ==
    \E steps \in {save_subtitles_steps(transcription, file_path, requested,
                                       files, dirs)} :
        /\ files' = steps.files
        /\ dirs' = steps.dirs
        /\ last' = [Call("save_subtitles") EXCEPT
                        !.requested = requested, !.raised = steps.raised,
                        !.ret = steps.ret, !.content = steps.content]
        /\ UNCHANGED <<transcription, file_path, succeeded, input, output>>

\* Transcribr.is_video_file(path), called on its own.  The prober fails on a
\* path that does not exist.
call_is_video_file(path, probe) ==
    \E r \in {is_video_file(probe)} :
        /\ exists(path, files, dirs) \/ probe.failed
        /\ last' = [Call("is_video_file") EXCEPT
                        !.path = Some(path), !.raised = r.raised, !.value = r.value,
                        !.calls = <<"probe video">>, !.video = Observed(probe)]
        /\ UNCHANGED <<transcription, file_path, files, dirs, succeeded, input, output>>

\* Transcribr.is_audio_file(path), called on its own.
call_is_audio_file(path, probe) ==
    \E r \in {is_audio_file(probe)} :
        /\ exists(path, files, dirs) \/ probe.failed
        /\ last' = [Call("is_audio_file") EXCEPT
                        !.path = Some(path), !.raised = r.raised, !.value = r.value,
                        !.calls = <<"probe audio">>, !.audio = Observed(probe)]
        /\ UNCHANGED <<transcription, file_path, files, dirs, succeeded, input, output>>

\* Whether the latest call was output_file with these arguments.
same_call(path, requested, extension) ==
    /\ last.op = "output_file"
    /\ last.path = Some(path)
    /\ last.requested = requested
    /\ last.extension = extension

\* Transcribr.output_file(path, requested, extension), called on its own; "again"
\* keeps the outcome of the same call made directly before.
call_output_file(path, requested, extension) ==
    \E o \in {output_file(path, requested, extension, files, dirs)} :
        /\ dirs' = o.dirs
        /\ last' = [Call("output_file") EXCEPT
                        !.path = Some(path), !.requested = requested,
                        !.extension = extension, !.raised = o.raised,
                        !.ret = IF o.raised = "" THEN Some(o.value) ELSE None,
                        !.again = IF same_call(path, requested, extension)
                                  THEN Some([raised |-> last.raised, ret |-> last.ret])
                                  ELSE None]
        /\ UNCHANGED <<transcription, file_path, files, succeeded, input, output>>

Next ==
    \/ \E path \in InputPaths, a \in Answers :
            /\ exists(path, files, dirs) \/ a = NoAnswers
            /\ transcribe(path, a.pv, a.pa, a.decoded, a.recognized)
    \/ \E requested \in RenderOutputs : save_transcription(requested)
    \/ \E requested \in RenderOutputs : save_subtitles(requested)

Spec == Init /\ [][Next]_vars

\* The classifier and the output path resolver, called on their own.
NextHelpers ==
    \/ \E path \in InputPaths, probe \in ProbeOutcomes : call_is_video_file(path, probe)
    \/ \E path \in InputPaths, probe \in ProbeOutcomes : call_is_audio_file(path, probe)
    \/ \E path \in InputPaths, requested \in RequestedOutputs, extension \in Extensions :
            call_output_file(path, requested, extension)

SpecHelpers == Init /\ [][NextHelpers]_vars

(***************************************************************************)
(* The pure functions on their own: format_timedelta, generate_srt and the *)
(* text of save_transcription, each applied to an argument drawn at the    *)
(* start.                                                                  *)
(***************************************************************************)
session == <<transcription, file_path, files, dirs, succeeded, last>>

\* Times around the unit changes, up to and beyond 100 hours, at every whole
\* millisecond and next to it.
FormatTimes ==
    {Time(s, 1000 * j + r) :
        s \in {0, 1, 2, 59, 60, 3599, 3600, 3725, 86399, 359999, 360000},
        j \in 0..999, r \in {0, 1, 999}}

InitFormat == NewSession /\ input \in FormatTimes /\ output = None

call_format_timedelta ==
    /\ output = None
    /\ output' = Some(format_timedelta(input))
    /\ UNCHANGED <<session, input>>

SpecFormat == InitFormat /\ [][call_format_timedelta]_vars

SegmentTimes ==
    { [start |-> Time(0, 0), end |-> Time(1, 0)],
      [start |-> Time(1, 0), end |-> Time(2, 500000)],
      [start |-> Time(59, 999000), end |-> Time(3725, 250000)] }

SegmentTexts ==
    { <<"H", "i">>, <<" ", "w", " ", "o", " ">>, <<"\n", "a", "\n", "b", "\t">>, <<" ">> }

Segments ==
    {[start |-> t.start, end |-> t.end, text |-> x] : t \in SegmentTimes, x \in SegmentTexts}

InitSrt ==
    /\ NewSession
    /\ input \in {[text |-> <<>>, segments |-> segs] :
                    segs \in UNION {[1..n -> Segments] : n \in 0..MaxSegments}}
    /\ output = None

call_generate_srt ==
    /\ output = None
    /\ output' = Some(generate_srt(input))
    /\ UNCHANGED <<session, input>>

SpecSrt == InitSrt /\ [][call_generate_srt]_vars

Punctuation == {".", "?", "!"}

TextAlphabet == Punctuation \cup {" ", "a", "\n"}

InitText ==
    /\ NewSession
    /\ input \in UNION {[1..n -> TextAlphabet] : n \in 0..MaxTextLen}
    /\ output = None

call_break_lines ==
    /\ output = None
    /\ output' = Some(break_lines(input))
    /\ UNCHANGED <<session, input>>

SpecText == InitText /\ [][call_break_lines]_vars

(***************************************************************************)
(* The claims.                                                             *)
(***************************************************************************)
Renderers == {"save_transcription", "save_subtitles"}

\* Whether the latest call left the session's two fields as they were.
FieldsKept ==
    /\ transcription = last.before.transcription
    /\ file_path = last.before.file_path

\* Whether the latest call, a transcribe, was given a path that existed.
InputExisted == exists(last.path[1], last.before.files, last.before.dirs)

Asked(what) == \E i \in 1..Len(last.calls) : last.calls[i] = what

\* C1: while no transcribe has succeeded, save_transcription and save_subtitles,
\* with or without a requested output, raise "No transcription available" and
\* change nothing: both fields stay None and the file system is as before.
C1_RenderBeforeTranscribe ==
    (last.op \in Renderers /\ succeeded = None) =>
        /\ last.raised = NoTranscriptionAvailable
        /\ transcription = None
        /\ file_path = None
        /\ last.before = Snapshot
        /\ last.ret = None
        /\ last.content = None

\* A renderer called with a requested output after a transcribe that failed in
\* the recognizer, the decoder having written its file.
C1_Witness ==
    /\ last.op \in Renderers
    /\ last.requested # None
    /\ succeeded = None
    /\ temp_audio \in files
    /\ last.raised = NoTranscriptionAvailable

\* C2: transcribe of a path that does not exist raises the file-not-found
\* assertion before any collaborator is asked and leaves both fields as they were.
C2_MissingInput ==
    (last.op = "transcribe" /\ ~InputExisted) =>
        /\ last.raised = "AssertionError: File not found"
        /\ last.calls = <<>>
        /\ FieldsKept

\* A Ready session after a transcribe of a missing path.
C2_Witness ==
    /\ last.op = "transcribe"
    /\ ~InputExisted
    /\ transcription # None
    /\ last.raised = "AssertionError: File not found"

\* C3: a transcribe that fails after the existence check leaves both fields as
\* they were before the call.
C3_FailedTranscribe ==
    (last.op = "transcribe" /\ InputExisted /\ last.raised # "") => FieldsKept

\* A Ready session after the recognizer failed on another input than the stored one.
C3_Witness ==
    /\ last.op = "transcribe"
    /\ last.raised = "RecognizerError"
    /\ transcription # None
    /\ file_path # last.path

\* C4: the session holds a transcription exactly when a transcribe has
\* succeeded, and then the result of the latest one with the path passed to it;
\* a Ready session stays Ready, and the renderers change neither field.
C4_SessionState ==
    /\ (transcription # None) <=> (succeeded # None)
    /\ succeeded # None =>
        /\ transcription = Some(succeeded[1].result)
        /\ file_path = Some(succeeded[1].path)
    /\ last.before.transcription # None => transcription # None
    /\ last.op \in Renderers => FieldsKept
    /\ (last.op = "transcribe" /\ last.raised = "") => file_path = last.path

\* A Ready session whose fields were both replaced by a transcribe of a video,
\* recognized from the temporary audio file.
C4_Witness ==
    /\ last.op = "transcribe"
    /\ last.raised = ""
    /\ last.before.transcription # None
    /\ last.before.transcription # transcription
    /\ last.before.file_path # file_path
    /\ last.audio_path = Some(temp_audio)

\* C5: when the prober answers, is_video_file and is_audio_file raise nothing;
\* each returns True exactly when the first stream reported has the matching
\* type, and a false value otherwise, no stream reported included.
C5_ClassifierTotal ==
    /\ (last.op = "is_video_file" /\ last.video # "error") =>
        /\ last.raised = ""
        /\ last.value \in {"True", "False", "None"}
        /\ last.value = "True" <=> last.video = "video"
    /\ (last.op = "is_audio_file" /\ last.audio # "error") =>
        /\ last.raised = ""
        /\ last.value \in {"True", "False", "None"}
        /\ last.value = "True" <=> last.audio = "audio"

\* C6: transcribe of an existing file asks the video probe first and the audio
\* probe only after a negative video check; with no stream under either filter
\* it raises "Unsupported file type" and asks neither decoder nor recognizer.
C6_ClassificationOrder ==
    (last.op = "transcribe" /\ InputExisted) =>
        /\ last.calls[1] = "probe video"
        /\ Asked("probe audio") => last.video \in {"none", "audio", "subtitle"}
        /\ (last.video = "none" /\ last.audio = "none") =>
            /\ last.raised = "ValueError: Unsupported file type"
            /\ ~Asked("decode")
            /\ ~Asked("recognize")

\* Whether no directory named in the requested output is a regular file.
RequestedDirFree(requested) ==
    \/ requested = None
    \/ \A k \in 1..Len(split(requested[1])[1]) :
            SubSeq(split(requested[1])[1], 1, k) \notin files

\* C7: output_file, given an existing input file, does not fail on directory
\* creation and returns the requested path, or the input path with its
\* extension replaced; the same call made again returns the same path.
C7_OutputFileIdempotent ==
    (/\ last.op = "output_file"
     /\ exists(last.path[1], files, dirs)
     /\ RequestedDirFree(last.requested)) =>
        /\ last.raised = ""
        /\ last.ret = IF last.requested = None
                      THEN Some(splitext(last.path[1])[1] \o last.extension)
                      ELSE last.requested
        /\ last.again # None =>
            /\ last.again[1].raised = ""
            /\ last.again[1].ret = last.ret

\* The cue the claim describes for the k-th segment.
Cue(k, segment) ==
    IntToStr(k) \o <<"\n">>
    \o format_timedelta(segment.start) \o <<" ", "-", "-", ">", " ">>
    \o format_timedelta(segment.end) \o <<"\n">>
    \o Strip(segment.text) \o <<"\n", "\n">>

\* The length of the first k cues.
RECURSIVE CuesLen(_, _)
CuesLen(segments, k) ==
    IF k = 0 THEN 0 ELSE CuesLen(segments, k - 1) + Len(Cue(k, segments[k]))

\* C8: generate_srt writes one cue per segment, in order, the k-th numbered k
\* from 1, with the two formatted times, the stripped text and a blank line;
\* no segment gives the empty string.
C8_SrtCues ==
    output # None =>
        /\ Len(output[1]) = CuesLen(input.segments, Len(input.segments))
        /\ \A k \in 1..Len(input.segments) :
            SubSeq(output[1], CuesLen(input.segments, k - 1) + 1,
                   CuesLen(input.segments, k)) = Cue(k, input.segments[k])

\* Two cues written, one of a text with whitespace around it.
C8_Witness ==
    /\ output # None
    /\ Len(input.segments) = 2
    /\ Strip(input.segments[2].text) # input.segments[2].text
    /\ Len(output[1]) > 0

DigitValue(c) == (CHOOSE i \in 1..10 : Digits[i] = c) - 1

IsDigit(c) == \E i \in 1..10 : Digits[i] = c

\* The number written at places from..to of text, all digits.
RECURSIVE Number(_, _, _)
Number(text, from, to) ==
    IF to < from THEN 0
    ELSE 10 * Number(text, from, to - 1) + DigitValue(text[to])

\* C9: format_timedelta writes HH:MM:SS,mmm with two, two, two and three
\* digits, minutes and seconds below 60, and the string read back gives the
\* milliseconds of the time: those it holds, or the nearest.
C9_TimestampRoundTrip ==
    output # None =>
        /\ Len(output[1]) = 12
        /\ \A i \in {1, 2, 4, 5, 7, 8, 10, 11, 12} : IsDigit(output[1][i])
        /\ output[1][3] = ":" /\ output[1][6] = ":" /\ output[1][9] = ","
        /\ Number(output[1], 4, 5) <= 59
        /\ Number(output[1], 7, 8) <= 59
        /\ Number(output[1], 1, 2) * 3600 + Number(output[1], 4, 5) * 60
           + Number(output[1], 7, 8) = input.s
        /\ \/ Number(output[1], 10, 12) = input.us \div 1000
           \/ /\ input.us % 1000 >= 500
              /\ Number(output[1], 10, 12) = input.us \div 1000 + 1

\* C10: the text written has, for every period, question mark or exclamation
\* mark directly followed by a space, that space replaced by a newline, and
\* every other character unchanged and in place.
C10_LineBreaks ==
    output # None =>
        /\ Len(output[1]) = Len(input)
        /\ \A i \in 1..Len(input) :
            output[1][i] = IF i > 1 /\ input[i] = " " /\ input[i - 1] \in Punctuation
                           THEN "\n"
                           ELSE input[i]

\* A text with a question mark before a space, a space after a space, and
\* punctuation at its end.
C10_Witness ==
    /\ output # None
    /\ Len(input) = 4
    /\ input[1] = "?" /\ input[2] = " " /\ input[3] = " " /\ input[4] \in Punctuation
    /\ output[1] = <<"?", "\n", " ", input[4]>>

====
